---- MODULE Spec2Model ----
(***************************************************************************)
(* Billing & invoicing module of the transportation-management front end:  *)
(* the financial model (types/billing.ts), the localStorage-backed invoice *)
(* repository and the PDF pagination of utils/pdf.ts.                      *)
(*                                                                         *)
(* Numbers are integers (currency in whole units).  The value NotANumber   *)
(* stands for a JavaScript number that is not finite (NaN, and the null    *)
(* that JSON.stringify writes for it): Number.isFinite is false on it,     *)
(* `Number(x) || 0` maps it to 0 and `x > 0` is false.                     *)
(*                                                                         *)
(* Time is counted in hours since 2025-01-01T00:00Z.  A due date is a day  *)
(* index (0 = 2025-01-01); years have 365 days (2025, 2026, 2027).         *)
(***************************************************************************)
EXTENDS Integers, Sequences, FiniteSets, TLC

---------------------------------------------------------------------------
(* Bounds of the model *)

MaxItems == 2
MaxPayments == 3
MaxTicks == 1
MaxSeq == 2
MaxAllocSeq == 4
MaxImgHeight == 7
MaxCalls == 3
MaxLongSeq == 10000
MaxEffects == 3

\* the identifiers uuid() draws from: at most two invoices are stored at a time
InvoiceIds == {1, 2}
ExportCalls == {1, 2}
BookingIds == {"BK-1"}
ItemAmounts == {2}
PaymentAmounts == {1}
\* 2025-10-28
DueDates == {300}
\* local time zone, hours east of UTC
TZOffsets == {-5, 0, 5}
RepoTZOffsets == {-5, 5}
\* 2025-10-28T12:00Z
StartHour == (300 * 24) + 12
TickHours == 12 + 12

NotANumber == 0 - 1000000

VARIABLES
    storage,       \* localStorage[STORAGE_KEY]: [kind, invoices]
    now,           \* the instant new Date() returns, in hours UTC
    tz,            \* offset of the local time zone, in hours
    ret,           \* what the call of the step just taken handed back to its caller
    calls,         \* the exportElementToPDF calls: their locals and the document they build
    bodyOverflow,  \* document.body.style.overflow
    issued,        \* history kept by the allocator's specification: every invoice
                   \* number createInvoice has handed out so far
    callLog,       \* the repository calls started without awaiting one another, in
                   \* call order: their locals, where each one stands, its result
    page           \* BillingPage: its state (filters, invoices, loading) and the
                   \* runs of its load effect

repoVars == <<storage, now, tz, ret>>
pdfVars == <<calls, bodyOverflow>>
nonRepoVars == <<calls, bodyOverflow, issued, callLog, page>>
nonPdfVars == <<storage, now, tz, ret, issued, callLog, page>>
vars == <<storage, now, tz, ret, calls, bodyOverflow, issued, callLog, page>>

---------------------------------------------------------------------------
(* Arithmetic helpers *)

Max(a, b) == IF a >= b THEN a ELSE b

SetMax(S) == CHOOSE m \in S : \A x \in S : x <= m

\* Number.isFinite(x)
IsFinite(x) == x # NotANumber

\* Number(x) || 0
NumberOrZero(x) == IF x = NotANumber THEN 0 ELSE x

RECURSIVE SumAmounts(_)
\* xs.reduce((s, x) => s + (Number(x.amount) || 0), 0)
SumAmounts(xs) ==
    IF xs = <<>> THEN 0
    ELSE SumAmounts(SubSeq(xs, 1, Len(xs) - 1)) + NumberOrZero(xs[Len(xs)].amount)

---------------------------------------------------------------------------
(* The clock: new Date(), toDateString, getFullYear, new Date("YYYY-MM-DD") *)

\* local calendar day of an instant
LocalDay(instant) == (instant + tz) \div 24

\* new Date(today.toDateString()): local midnight of today's local date
LocalMidnight(instant) == (LocalDay(instant) * 24) - tz

\* new Date("YYYY-MM-DD"): a date-only ISO string is midnight UTC
ParseDate(day) == day * 24

\* new Date().getFullYear()
FullYear(instant) == 2025 + (LocalDay(instant) \div 365)

---------------------------------------------------------------------------
(* types/billing.ts *)

\* computeTotals with the balance left unclamped
computeTotals_unclamped(invoice) ==
    LET itemsTotal == SumAmounts(invoice.items)
        paid == SumAmounts(invoice.payments)
        total == IF IsFinite(invoice.total_amount) /\ invoice.total_amount > 0
                 THEN invoice.total_amount
                 ELSE itemsTotal
        balance == total - paid
    IN [itemsTotal |-> itemsTotal, total |-> total, paid |-> paid, balance |-> balance]

\* computeTotals with the precedence inverted: the items win over the cached total
computeTotals_itemsFirst(invoice) ==
    LET itemsTotal == SumAmounts(invoice.items)
        paid == SumAmounts(invoice.payments)
        total == IF itemsTotal > 0 THEN itemsTotal ELSE invoice.total_amount
        balance == Max(0, total - paid)
    IN [itemsTotal |-> itemsTotal, total |-> total, paid |-> paid, balance |-> balance]

\* computeTotals reporting what is still owed as the total
computeTotals_totalNetOfPaid(invoice) ==
    LET itemsTotal == SumAmounts(invoice.items)
        paid == SumAmounts(invoice.payments)
        total == (IF IsFinite(invoice.total_amount) /\ invoice.total_amount > 0
                  THEN invoice.total_amount
                  ELSE itemsTotal) - paid
        balance == Max(0, total - paid)
    IN [itemsTotal |-> itemsTotal, total |-> total, paid |-> paid, balance |-> balance]

computeTotals(invoice) ==
    LET itemsTotal == SumAmounts(invoice.items)
        paid == SumAmounts(invoice.payments)
        total == IF IsFinite(invoice.total_amount) /\ invoice.total_amount > 0
                 THEN invoice.total_amount
                 ELSE itemsTotal
        balance == Max(0, total - paid)
    IN [itemsTotal |-> itemsTotal, total |-> total, paid |-> paid, balance |-> balance]

\* deriveStatus comparing the due date with the instant of the call, not with
\* the start of its day
deriveStatus_comparesInstant(invoice) ==
    LET t == computeTotals(invoice)
        today == now
        due == ParseDate(invoice.due_date)
    IN IF t.paid >= t.total /\ t.total > 0 THEN "Paid"
       ELSE IF t.paid < t.total /\ due < today THEN "Overdue"
       ELSE "Unpaid"

\* deriveStatus looking at the due date before the payments
deriveStatus_overdueFirst(invoice) ==
    LET t == computeTotals(invoice)
        today == now
        due == ParseDate(invoice.due_date)
    IN IF due < LocalMidnight(today) THEN "Overdue"
       ELSE IF t.paid >= t.total /\ t.total > 0 THEN "Paid"
       ELSE "Unpaid"

deriveStatus(invoice) ==
    LET t == computeTotals(invoice)
        today == now
        due == ParseDate(invoice.due_date)
    IN IF t.paid >= t.total /\ t.total > 0 THEN "Paid"
       ELSE IF t.paid < t.total /\ due < LocalMidnight(today) THEN "Overdue"
       ELSE "Unpaid"

---------------------------------------------------------------------------
(* Invoice numbers: `INV-${year}-${String(next).padStart(4, '0')}`.  An      *)
(* invoice number is kept as its year and the digits of its suffix.         *)

RECURSIVE Digits(_)
\* String(n) for n >= 0, as decimal digits
Digits(n) == IF n < 10 THEN <<n>> ELSE Digits(n \div 10) \o <<n % 10>>

RECURSIVE PadStart(_, _)
\* s.padStart(width, '0')
PadStart(s, width) == IF Len(s) >= width THEN s ELSE PadStart(<<0>> \o s, width)

RECURSIVE ParseInt(_)
\* parseInt(s, 10) of a digit string; NaN when s has no digit
ParseInt(s) ==
    IF s = <<>> THEN NotANumber
    ELSE IF Len(s) = 1 THEN s[1]
    ELSE (ParseInt(SubSeq(s, 1, Len(s) - 1)) * 10) + s[Len(s)]

\* n.startsWith(`INV-${year}-`)
StartsWithPrefix(n, year) == n.year = year

\* nextInvoiceNumber counting the numbers of the year instead of taking their maximum
nextInvoiceNumber_countPlusOne(existing) ==
    LET year == FullYear(now)
        nums == {ParseInt(existing[k].invoice_number.suffix) :
                    k \in {j \in 1 .. Len(existing) :
                              StartsWithPrefix(existing[j].invoice_number, year)}}
                \ {NotANumber}
        next == Cardinality(nums) + 1
    IN [year |-> year, suffix |-> PadStart(Digits(next), 4)]

\* nextInvoiceNumber without the filter on the year's prefix
nextInvoiceNumber_allYears(existing) ==
    LET year == FullYear(now)
        nums == {ParseInt(existing[k].invoice_number.suffix) : k \in 1 .. Len(existing)}
                \ {NotANumber}
        next == (IF nums # {} THEN SetMax(nums) ELSE 0) + 1
    IN [year |-> year, suffix |-> PadStart(Digits(next), 4)]

nextInvoiceNumber(existing) ==
    LET year == FullYear(now)
        nums == {ParseInt(existing[k].invoice_number.suffix) :
                    k \in {j \in 1 .. Len(existing) :
                              StartsWithPrefix(existing[j].invoice_number, year)}}
                \ {NotANumber}
        next == (IF nums # {} THEN SetMax(nums) ELSE 0) + 1
    IN [year |-> year, suffix |-> PadStart(Digits(next), 4)]

---------------------------------------------------------------------------
(* Texts, for the query filter: a text is the sequence of its characters.   *)
(* Due dates stay day indices: two YYYY-MM-DD strings compare as texts the  *)
(* way their days compare as numbers.                                       *)

\* one character of String.prototype.toLowerCase, over the letters that occur
ToLowerChar(c) ==
    CASE c = "B" -> "b"
      [] c = "K" -> "k"
      [] c = "I" -> "i"
      [] c = "N" -> "n"
      [] c = "V" -> "v"
      [] OTHER -> c

\* s.toLowerCase()
ToLowerCase(s) == [k \in 1 .. Len(s) |-> ToLowerChar(s[k])]

\* s.includes(q)
Includes(s, q) == \E k \in 0 .. (Len(s) - Len(q)) : SubSeq(s, k + 1, k + Len(q)) = q

DigitChar(d) == <<"0", "1", "2", "3", "4", "5", "6", "7", "8", "9">>[d + 1]

DigitChars(ds) == [k \in 1 .. Len(ds) |-> DigitChar(ds[k])]

\* `INV-${year}-${suffix}` as a text
InvoiceNumberText(n) ==
    <<"I", "N", "V", "-">> \o DigitChars(Digits(n.year)) \o <<"-">> \o DigitChars(n.suffix)

\* the characters of a booking id
BookingText(b) ==
    CASE b = "BK-1" -> <<"B", "K", "-", "1">>
      [] b = "bk-2" -> <<"b", "k", "-", "2">>

---------------------------------------------------------------------------
(* The repository over localStorage.  Array.filter is SelectSeq. *)

(* The persisted value is missing, a text JSON.parse rejects, the JSON of a    *)
(* store, or JSON of something else: null, a number, an object without an    *)
(* invoices array.  JSON.parse returns the last three as they are.           *)

StoreKinds == {"missing", "unparseable", "json"}

NonStoreKinds == {"null", "number", "emptyObject"}

EmptyStore == [invoices |-> <<>>]

\* what load() returns for JSON that is no store: a value store.invoices cannot be
\* read from as an array
NotAStore == [invoices |-> <<>>, notAStore |-> TRUE]

load ==
    IF storage.kind = "json" THEN [invoices |-> storage.invoices]
    ELSE IF storage.kind \in NonStoreKinds THEN NotAStore
    ELSE EmptyStore

\* store.invoices is an array: spreading, find, filter and map work on it
HasInvoices(store) == "notAStore" \notin DOMAIN store

\* localStorage.setItem(STORAGE_KEY, JSON.stringify(store))
save(store) == storage' = [kind |-> "json", invoices |-> store.invoices]

\* invoices.find(i => i.id === id), as an index; 0 when there is none
FindIndex(invoices, id) ==
    IF \E k \in 1 .. Len(invoices) : invoices[k].id = id
    THEN CHOOSE k \in 1 .. Len(invoices) :
            /\ invoices[k].id = id
            /\ \A j \in 1 .. (k - 1) : invoices[j].id # id
    ELSE 0

\* { ...i, status: deriveStatus(i), total_amount: computeTotals(i).total }
Refresh_totalOnly(i) == [i EXCEPT !.total_amount = computeTotals(i).total]

Refresh(i) == [i EXCEPT !.status = deriveStatus(i), !.total_amount = computeTotals(i).total]

\* filters?.query absent or '' is the empty text; hasFrom and hasTo tell whether
\* dueFrom and dueTo are present and not ''
NoFilters ==
    [status |-> "All", query |-> <<>>, hasFrom |-> FALSE, dueFrom |-> 0,
     hasTo |-> FALSE, dueTo |-> 0]

NoTotals == [itemsTotal |-> 0, total |-> 0, paid |-> 0, balance |-> 0]

NoRet ==
    [op |-> "none", id |-> 0, filters |-> NoFilters, invs |-> <<>>, err |-> "none",
     totals |-> NoTotals, status |-> "none", args |-> <<>>]

Returned(op, id, filters, invs) == [NoRet EXCEPT !.op = op, !.id = id, !.filters = filters, !.invs = invs]

Thrown(op, id, message) == [NoRet EXCEPT !.op = op, !.id = id, !.err = message]

\* store.invoices is undefined, or store is null: the first use of the array throws
\* and the promise of the operation rejects
Raises(op, id) ==
    /\ ret' = Thrown(op, id, "TypeError")
    /\ UNCHANGED <<storage, now, tz>>

\* the call's result together with the arguments the call was made with
WithArgs(r, args) == [r EXCEPT !.args = args]

\* i.status ?? deriveStatus(i)
StatusOrDerived(i) == IF i.status = "null" THEN deriveStatus(i) ELSE i.status

\* listInvoices lower-casing the query but not the texts it is looked for in
listInvoicesResult_textsNotLowered(filters) ==
    LET store == load
        q == ToLowerCase(filters.query)
        KeepStatus(i) == StatusOrDerived(i) = filters.status
        KeepQuery(i) ==
            \/ Includes(InvoiceNumberText(i.invoice_number), q)
            \/ Includes(BookingText(i.booking_id), q)
        KeepFrom(i) == i.due_date >= filters.dueFrom
        KeepTo(i) == i.due_date <= filters.dueTo
        d0 == store.invoices
        d1 == IF filters.status # "All" THEN SelectSeq(d0, KeepStatus) ELSE d0
        dq == IF filters.query # <<>> THEN SelectSeq(d1, KeepQuery) ELSE d1
        d2 == IF filters.hasFrom THEN SelectSeq(dq, KeepFrom) ELSE dq
        d3 == IF filters.hasTo THEN SelectSeq(d2, KeepTo) ELSE d2
    IN [k \in 1 .. Len(d3) |-> Refresh(d3[k])]

listInvoicesResult(filters) ==
    LET store == load
        q == ToLowerCase(filters.query)
        KeepStatus(i) == StatusOrDerived(i) = filters.status
        KeepQuery(i) ==
            \/ Includes(ToLowerCase(InvoiceNumberText(i.invoice_number)), q)
            \/ Includes(ToLowerCase(BookingText(i.booking_id)), q)
        KeepFrom(i) == i.due_date >= filters.dueFrom
        KeepTo(i) == i.due_date <= filters.dueTo
        d0 == store.invoices
        d1 == IF filters.status # "All" THEN SelectSeq(d0, KeepStatus) ELSE d0
        dq == IF filters.query # <<>> THEN SelectSeq(d1, KeepQuery) ELSE d1
        d2 == IF filters.hasFrom THEN SelectSeq(dq, KeepFrom) ELSE dq
        d3 == IF filters.hasTo THEN SelectSeq(d2, KeepTo) ELSE d2
    IN [k \in 1 .. Len(d3) |-> Refresh(d3[k])]

listInvoices(filters) ==
    IF ~HasInvoices(load)
    THEN Raises("listInvoices", 0)
    ELSE /\ ret' = Returned("listInvoices", 0, filters, listInvoicesResult(filters))
         /\ UNCHANGED <<storage, now, tz>>

\* getInvoice writing the refreshed invoice back to the store
getInvoice_writesBack(id) ==
    LET store == load
        k == FindIndex(store.invoices, id)
    IN /\ ret' = Returned("getInvoice", id, NoFilters,
                          IF k # 0 THEN <<Refresh(store.invoices[k])>> ELSE <<>>)
       /\ IF k # 0
          THEN save([store EXCEPT !.invoices[k] = Refresh(store.invoices[k])])
          ELSE UNCHANGED storage
       /\ UNCHANGED <<now, tz>>

getInvoice(id) ==
    LET store == load
        k == FindIndex(store.invoices, id)
    IN IF ~HasInvoices(store)
       THEN Raises("getInvoice", id)
       ELSE /\ ret' = Returned("getInvoice", id, NoFilters,
                               IF k # 0 THEN <<Refresh(store.invoices[k])>> ELSE <<>>)
            /\ UNCHANGED <<storage, now, tz>>

\* createInvoice putting the new invoice at the head of the store
createInvoice_prepends(id, input) ==
    LET store == load
        invoiceNum == nextInvoiceNumber(store.invoices)
        items == [k \in 1 .. Len(input.items) |->
                     [invoice_id |-> id, amount |-> input.items[k].amount]]
        total == SumAmounts(items)
        invoice == [id |-> id,
                    booking_id |-> input.booking_id,
                    invoice_number |-> invoiceNum,
                    total_amount |-> total,
                    due_date |-> input.due_date,
                    status |-> "Unpaid",
                    items |-> items,
                    payments |-> <<>>]
    IN /\ save([store EXCEPT !.invoices = <<invoice>> \o store.invoices])
       /\ ret' = WithArgs(Returned("createInvoice", id, NoFilters, <<invoice>>), <<input>>)
       /\ UNCHANGED <<now, tz>>

createInvoice(id, input) ==
    LET store == load
        invoiceNum == nextInvoiceNumber(store.invoices)
        items == [k \in 1 .. Len(input.items) |->
                     [invoice_id |-> id, amount |-> input.items[k].amount]]
        total == SumAmounts(items)
        invoice == [id |-> id,
                    booking_id |-> input.booking_id,
                    invoice_number |-> invoiceNum,
                    total_amount |-> total,
                    due_date |-> input.due_date,
                    status |-> "Unpaid",
                    items |-> items,
                    payments |-> <<>>]
    IN IF ~HasInvoices(store)
       THEN Raises("createInvoice", id)
       ELSE /\ save([store EXCEPT !.invoices = Append(store.invoices, invoice)])
            /\ ret' = WithArgs(Returned("createInvoice", id, NoFilters, <<invoice>>),
                                <<input>>)
            /\ UNCHANGED <<now, tz>>

\* addInvoiceItem leaving the cached total as it was
addInvoiceItem_keepsCachedTotal(invoiceId, amount) ==
    LET store == load
        k == FindIndex(store.invoices, invoiceId)
    IN IF k = 0
       THEN /\ ret' = WithArgs(Thrown("addInvoiceItem", invoiceId, "Invoice not found"),
                                <<amount>>)
            /\ UNCHANGED <<storage, now, tz>>
       ELSE LET inv0 == store.invoices[k]
                item == [invoice_id |-> invoiceId, amount |-> amount]
                inv1 == [inv0 EXCEPT !.items = Append(inv0.items, item)]
                inv3 == [inv1 EXCEPT !.status = deriveStatus(inv1)]
            IN /\ save([store EXCEPT !.invoices[k] = inv3])
               /\ ret' = WithArgs(Returned("addInvoiceItem", invoiceId, NoFilters, <<inv3>>),
                                   <<amount>>)
               /\ UNCHANGED <<now, tz>>

addInvoiceItem(invoiceId, amount) ==
    LET store == load
        k == FindIndex(store.invoices, invoiceId)
    IN IF ~HasInvoices(store)
       THEN Raises("addInvoiceItem", invoiceId)
       ELSE IF k = 0
       THEN /\ ret' = WithArgs(Thrown("addInvoiceItem", invoiceId, "Invoice not found"),
                                <<amount>>)
            /\ UNCHANGED <<storage, now, tz>>
       ELSE LET inv0 == store.invoices[k]
                item == [invoice_id |-> invoiceId, amount |-> amount]
                inv1 == [inv0 EXCEPT !.items = Append(inv0.items, item)]
                inv2 == [inv1 EXCEPT !.total_amount = computeTotals(inv1).itemsTotal]
                inv3 == [inv2 EXCEPT !.status = deriveStatus(inv2)]
            IN /\ save([store EXCEPT !.invoices[k] = inv3])
               /\ ret' = WithArgs(Returned("addInvoiceItem", invoiceId, NoFilters, <<inv3>>),
                                   <<amount>>)
               /\ UNCHANGED <<now, tz>>

\* recordPayment returning quietly when the invoice is missing
recordPayment_ignoresMissing(invoiceId, input) ==
    LET store == load
        k == FindIndex(store.invoices, invoiceId)
    IN IF k = 0
       THEN /\ save(store)
            /\ ret' = WithArgs(Returned("recordPayment", invoiceId, NoFilters, <<>>), <<input>>)
            /\ UNCHANGED <<now, tz>>
       ELSE LET inv0 == store.invoices[k]
                payment == [invoice_id |-> invoiceId, amount |-> input.amount]
                inv1 == [inv0 EXCEPT !.payments = Append(inv0.payments, payment)]
                t == computeTotals(inv1)
                inv2 == [inv1 EXCEPT !.total_amount = t.total]
                inv3 == [inv2 EXCEPT !.status =
                            IF t.paid >= t.total THEN "Paid" ELSE deriveStatus(inv2)]
            IN /\ save([store EXCEPT !.invoices[k] = inv3])
               /\ ret' = WithArgs(Returned("recordPayment", invoiceId, NoFilters, <<inv3>>),
                                   <<input>>)
               /\ UNCHANGED <<now, tz>>

\* recordPayment leaving the status to deriveStatus in every case
recordPayment_alwaysDerives(invoiceId, input) ==
    LET store == load
        k == FindIndex(store.invoices, invoiceId)
    IN IF k = 0
       THEN /\ ret' = WithArgs(Thrown("recordPayment", invoiceId, "Invoice not found"),
                                <<input>>)
            /\ UNCHANGED <<storage, now, tz>>
       ELSE LET inv0 == store.invoices[k]
                payment == [invoice_id |-> invoiceId, amount |-> input.amount]
                inv1 == [inv0 EXCEPT !.payments = Append(inv0.payments, payment)]
                t == computeTotals(inv1)
                inv2 == [inv1 EXCEPT !.total_amount = t.total]
                inv3 == [inv2 EXCEPT !.status = deriveStatus(inv2)]
            IN /\ save([store EXCEPT !.invoices[k] = inv3])
               /\ ret' = WithArgs(Returned("recordPayment", invoiceId, NoFilters, <<inv3>>),
                                   <<input>>)
               /\ UNCHANGED <<now, tz>>

\* recordPayment keeping the newest payment first
recordPayment_newestFirst(invoiceId, input) ==
    LET store == load
        k == FindIndex(store.invoices, invoiceId)
    IN IF ~HasInvoices(store)
       THEN Raises("recordPayment", invoiceId)
       ELSE IF k = 0
       THEN /\ ret' = WithArgs(Thrown("recordPayment", invoiceId, "Invoice not found"),
                                <<input>>)
            /\ UNCHANGED <<storage, now, tz>>
       ELSE LET inv0 == store.invoices[k]
                payment == [invoice_id |-> invoiceId, amount |-> input.amount]
                inv1 == [inv0 EXCEPT !.payments = <<payment>> \o inv0.payments]
                t == computeTotals(inv1)
                inv2 == [inv1 EXCEPT !.total_amount = t.total]
                inv3 == [inv2 EXCEPT !.status =
                            IF t.paid >= t.total THEN "Paid" ELSE deriveStatus(inv2)]
            IN /\ save([store EXCEPT !.invoices[k] = inv3])
               /\ ret' = WithArgs(Returned("recordPayment", invoiceId, NoFilters, <<inv3>>),
                                   <<input>>)
               /\ UNCHANGED <<now, tz>>

recordPayment(invoiceId, input) ==
    LET store == load
        k == FindIndex(store.invoices, invoiceId)
    IN IF ~HasInvoices(store)
       THEN Raises("recordPayment", invoiceId)
       ELSE IF k = 0
       THEN /\ ret' = WithArgs(Thrown("recordPayment", invoiceId, "Invoice not found"),
                                <<input>>)
            /\ UNCHANGED <<storage, now, tz>>
       ELSE LET inv0 == store.invoices[k]
                payment == [invoice_id |-> invoiceId, amount |-> input.amount]
                inv1 == [inv0 EXCEPT !.payments = Append(inv0.payments, payment)]
                t == computeTotals(inv1)
                inv2 == [inv1 EXCEPT !.total_amount = t.total]
                inv3 == [inv2 EXCEPT !.status =
                            IF t.paid >= t.total THEN "Paid" ELSE deriveStatus(inv2)]
            IN /\ save([store EXCEPT !.invoices[k] = inv3])
               /\ ret' = WithArgs(Returned("recordPayment", invoiceId, NoFilters, <<inv3>>),
                                   <<input>>)
               /\ UNCHANGED <<now, tz>>

\* deleteInvoice failing when there is nothing to delete
deleteInvoice_failsOnMissing(invoiceId) ==
    LET store == load
        Other(i) == i.id # invoiceId
    IN IF FindIndex(store.invoices, invoiceId) = 0
       THEN /\ ret' = Thrown("deleteInvoice", invoiceId, "Invoice not found")
            /\ UNCHANGED <<storage, now, tz>>
       ELSE /\ save([store EXCEPT !.invoices = SelectSeq(store.invoices, Other)])
            /\ ret' = Returned("deleteInvoice", invoiceId, NoFilters, <<>>)
            /\ UNCHANGED <<now, tz>>

deleteInvoice(invoiceId) ==
    LET store == load
        Other(i) == i.id # invoiceId
    IN IF ~HasInvoices(store)
       THEN Raises("deleteInvoice", invoiceId)
       ELSE /\ save([store EXCEPT !.invoices = SelectSeq(store.invoices, Other)])
            /\ ret' = Returned("deleteInvoice", invoiceId, NoFilters, <<>>)
            /\ UNCHANGED <<now, tz>>

\* time passes between two calls
Tick(start) ==
    /\ now < start + (MaxTicks * TickHours)
    /\ now' = now + TickHours
    /\ ret' = NoRet
    /\ UNCHANGED <<storage, tz>>

---------------------------------------------------------------------------
(* The repository driven by its callers *)

SeqsUpTo(S, n) == UNION {[1 .. m -> S] : m \in 0 .. n}

ItemInputs == [amount : ItemAmounts]

CreateInputs ==
    [booking_id : BookingIds, due_date : DueDates, items : SeqsUpTo(ItemInputs, MaxItems)]

PaymentInputs == [amount : PaymentAmounts]

StatusFilters == {[NoFilters EXCEPT !.status = s] : s \in {"All", "Unpaid", "Paid", "Overdue"}}

StoredIds == {load.invoices[k].id : k \in 1 .. Len(load.invoices)}

Stored(id) == load.invoices[FindIndex(load.invoices, id)]

\* rejection: what became of the call's promise once it rejected
IdleCall ==
    [pc |-> "idle", originalOverflow |-> "", imgHeight |-> 0, pageHeight |-> 0,
     heightLeft |-> 0, position |-> 0, pages |-> <<>>, saved |-> FALSE,
     rejection |-> "none"]

\* BillingPage before its first effect has run: useState's initial values
IdlePage == [filters |-> NoFilters, invoices |-> <<>>, loading |-> FALSE, effects |-> <<>>]

NoExports ==
    /\ calls = [c \in ExportCalls |-> IdleCall]
    /\ bodyOverflow = ""
    /\ issued = {}
    /\ callLog = <<>>
    /\ page = IdlePage

Init ==
    /\ storage = [kind |-> "missing", invoices |-> <<>>]
    /\ now = StartHour
    /\ tz \in RepoTZOffsets
    /\ ret = NoRet
    /\ NoExports

ListStep == (\E f \in StatusFilters : listInvoices(f)) /\ UNCHANGED nonRepoVars

GetStep == (\E id \in InvoiceIds : getInvoice(id)) /\ UNCHANGED nonRepoVars

\* the history takes the number of the invoice createInvoice has just returned
Issue == issued' = issued \cup {ret'.invs[1].invoice_number}

\* uuid() hands out an identifier no stored invoice has
CreateStep ==
    /\ ParseInt(nextInvoiceNumber(load.invoices).suffix) <= MaxSeq
    /\ \E id \in InvoiceIds \ StoredIds, input \in CreateInputs : createInvoice(id, input)
    /\ UNCHANGED nonRepoVars

AddItemStep ==
    /\ \E id \in InvoiceIds, a \in ItemAmounts :
        /\ id \in StoredIds => Len(Stored(id).items) < MaxItems
        /\ addInvoiceItem(id, a)
    /\ UNCHANGED nonRepoVars

PaymentStep ==
    /\ \E id \in InvoiceIds, input \in PaymentInputs :
        /\ id \in StoredIds => Len(Stored(id).payments) < MaxPayments
        /\ recordPayment(id, input)
    /\ UNCHANGED nonRepoVars

DeleteStep == (\E id \in InvoiceIds : deleteInvoice(id)) /\ UNCHANGED nonRepoVars

TickStep == Tick(StartHour) /\ UNCHANGED nonRepoVars

Next ==
    \/ ListStep
    \/ GetStep
    \/ CreateStep
    \/ AddItemStep
    \/ PaymentStep
    \/ DeleteStep
    \/ TickStep

Spec == Init /\ [][Next]_vars

---------------------------------------------------------------------------
(* The life of stored invoices: items and payments are added while the      *)
(* days pass; nothing is read and nothing is deleted.                       *)

NextStatus ==
    \/ CreateStep
    \/ AddItemStep
    \/ PaymentStep
    \/ TickStep

SpecStatus == Init /\ [][NextStatus]_vars

---------------------------------------------------------------------------
(* The invoice-number allocator over several invoices and a turn of the     *)
(* year: invoices without items, three identifiers, the clock starting on   *)
(* 2025-12-31.                                                              *)

AllocIds == {1, 2, 3}

AllocInputs == [booking_id : BookingIds, due_date : DueDates, items : {<<>>}]

\* 2025-12-31T12:00Z
AllocStartHour == (364 * 24) + 12

InitAlloc ==
    /\ storage = [kind |-> "missing", invoices |-> <<>>]
    /\ now = AllocStartHour
    /\ tz \in TZOffsets
    /\ ret = NoRet
    /\ NoExports

AllocCreateStep ==
    /\ ParseInt(nextInvoiceNumber(load.invoices).suffix) <= MaxAllocSeq
    /\ \E id \in AllocIds \ StoredIds, input \in AllocInputs : createInvoice(id, input)
    /\ Issue
    /\ UNCHANGED <<calls, bodyOverflow, callLog, page>>

AllocDeleteStep == (\E id \in AllocIds : deleteInvoice(id)) /\ UNCHANGED nonRepoVars

AllocTickStep == Tick(AllocStartHour) /\ UNCHANGED nonRepoVars

NextAlloc ==
    \/ AllocCreateStep
    \/ AllocDeleteStep
    \/ AllocTickStep

SpecAlloc == InitAlloc /\ [][NextAlloc]_vars

---------------------------------------------------------------------------
(* The allocator over a long life of the store: invoices are created and    *)
(* deleted, at most two are kept at a time, and the sequence of the year    *)
(* climbs as far as MaxLongSeq.                                             *)

LongCreateStep ==
    /\ ParseInt(nextInvoiceNumber(load.invoices).suffix) <= MaxLongSeq
    /\ \E id \in InvoiceIds \ StoredIds, input \in AllocInputs : createInvoice(id, input)
    /\ UNCHANGED nonRepoVars

LongDeleteStep == (\E id \in StoredIds : deleteInvoice(id)) /\ UNCHANGED nonRepoVars

NextLong ==
    \/ LongCreateStep
    \/ LongDeleteStep

SpecLong == Init /\ [][NextLong]_vars

---------------------------------------------------------------------------
(* The repository started on whatever the storage key may hold when the     *)
(* page is opened.                                                          *)

InitCorrupt ==
    /\ storage \in {[kind |-> k, invoices |-> <<>>] :
                        k \in (StoreKinds \ {"json"}) \cup NonStoreKinds}
    /\ now = StartHour
    /\ tz \in RepoTZOffsets
    /\ ret = NoRet
    /\ NoExports

NextCorrupt ==
    \/ ListStep
    \/ GetStep
    \/ CreateStep
    \/ DeleteStep

SpecCorrupt == InitCorrupt /\ [][NextCorrupt]_vars

---------------------------------------------------------------------------
(* Listing with the query and the due-date filters, over invoices that      *)
(* differ in booking id and due date.                                       *)

FilterBookingIds == {"BK-1", "bk-2"}

\* 2025-10-27, 2025-10-28, 2025-10-29
FilterDueDates == {299, 300, 301}

FilterInputs == [booking_id : FilterBookingIds, due_date : FilterDueDates, items : {<<>>}]

Queries == {<<>>, <<"B", "K">>, <<"k", "-", "1">>, <<"0", "0", "2">>, <<"x">>}

QueryFilters ==
    {[NoFilters EXCEPT !.query = q, !.hasFrom = hf, !.dueFrom = IF hf THEN 300 ELSE 0,
                       !.hasTo = ht, !.dueTo = IF ht THEN 300 ELSE 0] :
        q \in Queries, hf \in BOOLEAN, ht \in BOOLEAN}

FilterListStep == (\E f \in QueryFilters : listInvoices(f)) /\ UNCHANGED nonRepoVars

FilterCreateStep ==
    /\ ParseInt(nextInvoiceNumber(load.invoices).suffix) <= MaxSeq
    /\ \E id \in InvoiceIds \ StoredIds, input \in FilterInputs : createInvoice(id, input)
    /\ UNCHANGED nonRepoVars

FilterDeleteStep == (\E id \in StoredIds : deleteInvoice(id)) /\ UNCHANGED nonRepoVars

NextFilter ==
    \/ FilterListStep
    \/ FilterCreateStep
    \/ FilterDeleteStep

SpecFilter == Init /\ [][NextFilter]_vars

---------------------------------------------------------------------------
(* The ledger: the mutating operations over invoices whose items and        *)
(* payments differ in amount, so that the order of a list is visible.  The  *)
(* store holds at most MaxItems items and MaxPayments payments in all; the  *)
(* clock stands still (with the zone west of UTC an invoice due today is    *)
(* already past due, with the zone east it is not).                         *)

LedgerItemAmounts == {1, 2}

LedgerPaymentAmounts == {1, 2}

LedgerCreateInputs ==
    [booking_id : BookingIds, due_date : DueDates,
     items : SeqsUpTo([amount : LedgerItemAmounts], MaxItems)]

RECURSIVE CountItems(_)
CountItems(invoices) ==
    IF invoices = <<>> THEN 0 ELSE Len(invoices[1].items) + CountItems(Tail(invoices))

RECURSIVE CountPayments(_)
CountPayments(invoices) ==
    IF invoices = <<>> THEN 0 ELSE Len(invoices[1].payments) + CountPayments(Tail(invoices))

LedgerCreateStep ==
    /\ ParseInt(nextInvoiceNumber(load.invoices).suffix) <= MaxSeq
    /\ \E id \in InvoiceIds \ StoredIds, input \in LedgerCreateInputs :
          /\ CountItems(load.invoices) + Len(input.items) <= MaxItems
          /\ createInvoice(id, input)
    /\ UNCHANGED nonRepoVars

LedgerAddItemStep ==
    /\ \E id \in InvoiceIds, a \in LedgerItemAmounts :
          /\ id \in StoredIds => CountItems(load.invoices) < MaxItems
          /\ addInvoiceItem(id, a)
    /\ UNCHANGED nonRepoVars

LedgerPaymentStep ==
    /\ \E id \in InvoiceIds, a \in LedgerPaymentAmounts :
          /\ id \in StoredIds => CountPayments(load.invoices) < MaxPayments
          /\ recordPayment(id, [amount |-> a])
    /\ UNCHANGED nonRepoVars

LedgerDeleteStep == (\E id \in StoredIds : deleteInvoice(id)) /\ UNCHANGED nonRepoVars

NextLedger ==
    \/ LedgerCreateStep
    \/ LedgerAddItemStep
    \/ LedgerPaymentStep
    \/ LedgerDeleteStep

SpecLedger == Init /\ [][NextLedger]_vars

---------------------------------------------------------------------------
(* The financial model applied to invoices as a caller may hold them: the   *)
(* cached total_amount need not agree with the items (list views carry      *)
(* invoices whose items are not loaded).                                    *)

FinancialItems == SeqsUpTo([invoice_id : {1}, amount : {0, 2}], 2)

FinancialPayments == SeqsUpTo([invoice_id : {1}, amount : {1, 2}], 2)

FinancialInvoices ==
    [id : {1},
     booking_id : BookingIds,
     invoice_number : {[year |-> 2025, suffix |-> <<0, 0, 0, 1>>]},
     total_amount : {NotANumber, -1, 0, 1, 3},
     due_date : {300, 301},
     status : {"Unpaid"},
     items : FinancialItems,
     payments : FinancialPayments]

InitFinancial ==
    /\ \E i \in FinancialInvoices : storage = [kind |-> "json", invoices |-> <<i>>]
    /\ now = StartHour
    /\ tz \in TZOffsets
    /\ ret = NoRet
    /\ NoExports

TheInvoice == load.invoices[1]

ComputeTotalsStep ==
    /\ ret' = [NoRet EXCEPT !.op = "computeTotals", !.totals = computeTotals(TheInvoice)]
    /\ UNCHANGED <<storage, now, tz>>
    /\ UNCHANGED nonRepoVars

DeriveStatusStep ==
    /\ ret' = [NoRet EXCEPT !.op = "deriveStatus", !.status = deriveStatus(TheInvoice)]
    /\ UNCHANGED <<storage, now, tz>>
    /\ UNCHANGED nonRepoVars

FinancialTickStep == Tick(StartHour) /\ UNCHANGED nonRepoVars

NextFinancial ==
    \/ ComputeTotalsStep
    \/ DeriveStatusStep
    \/ FinancialTickStep

SpecFinancial == InitFinancial /\ [][NextFinancial]_vars

---------------------------------------------------------------------------
(* Repository calls started without awaiting one another.  A call is an     *)
(* async function: its body runs on the caller's stack from `load()` up to  *)
(* its first await, and there is none, so it runs to its return; the        *)
(* promise it returns settles later, in a task of its own.  A call stands   *)
(* at "loaded" (store read, nothing written yet), at "returned" (body done, *)
(* promise resolved or rejected) or at "settled" (the caller has the        *)
(* result).  The bodies are the operations above, as functions of the       *)
(* store the call has read.                                                 *)

\* the places in a body where it awaits, so that other code may run: the body of
\* an operation has no await, a call gives way only once it has returned
AtAwait_afterLoad(pc) == pc \in {"loaded", "returned", "settled"}

AtAwait(pc) == pc \in {"returned", "settled"}

createInvoiceOn(store, id, input) ==
    LET invoiceNum == nextInvoiceNumber(store.invoices)
        items == [k \in 1 .. Len(input.items) |->
                     [invoice_id |-> id, amount |-> input.items[k].amount]]
        total == SumAmounts(items)
        invoice == [id |-> id,
                    booking_id |-> input.booking_id,
                    invoice_number |-> invoiceNum,
                    total_amount |-> total,
                    due_date |-> input.due_date,
                    status |-> "Unpaid",
                    items |-> items,
                    payments |-> <<>>]
    IN IF ~HasInvoices(store)
       THEN [store |-> store, invs |-> <<>>, err |-> "TypeError"]
       ELSE [store |-> [store EXCEPT !.invoices = Append(store.invoices, invoice)],
             invs |-> <<invoice>>, err |-> "none"]

addInvoiceItemOn(store, invoiceId, amount) ==
    LET k == FindIndex(store.invoices, invoiceId)
    IN IF ~HasInvoices(store)
       THEN [store |-> store, invs |-> <<>>, err |-> "TypeError"]
       ELSE IF k = 0
       THEN [store |-> store, invs |-> <<>>, err |-> "Invoice not found"]
       ELSE LET inv0 == store.invoices[k]
                item == [invoice_id |-> invoiceId, amount |-> amount]
                inv1 == [inv0 EXCEPT !.items = Append(inv0.items, item)]
                inv2 == [inv1 EXCEPT !.total_amount = computeTotals(inv1).itemsTotal]
                inv3 == [inv2 EXCEPT !.status = deriveStatus(inv2)]
            IN [store |-> [store EXCEPT !.invoices[k] = inv3], invs |-> <<inv3>>,
                err |-> "none"]

recordPaymentOn(store, invoiceId, input) ==
    LET k == FindIndex(store.invoices, invoiceId)
    IN IF ~HasInvoices(store)
       THEN [store |-> store, invs |-> <<>>, err |-> "TypeError"]
       ELSE IF k = 0
       THEN [store |-> store, invs |-> <<>>, err |-> "Invoice not found"]
       ELSE LET inv0 == store.invoices[k]
                payment == [invoice_id |-> invoiceId, amount |-> input.amount]
                inv1 == [inv0 EXCEPT !.payments = Append(inv0.payments, payment)]
                t == computeTotals(inv1)
                inv2 == [inv1 EXCEPT !.total_amount = t.total]
                inv3 == [inv2 EXCEPT !.status =
                            IF t.paid >= t.total THEN "Paid" ELSE deriveStatus(inv2)]
            IN [store |-> [store EXCEPT !.invoices[k] = inv3], invs |-> <<inv3>>,
                err |-> "none"]

\* the body of call c run on the store it has read
Body(c, store) ==
    CASE c.op = "createInvoice" -> createInvoiceOn(store, c.id, c.arg)
      [] c.op = "addInvoiceItem" -> addInvoiceItemOn(store, c.id, c.arg)
      [] c.op = "recordPayment" -> recordPaymentOn(store, c.id, c.arg)

\* no call is inside its body: a new call may start, a settled promise may run
\* its continuation
StackIsFree == \A k \in 1 .. Len(callLog) : AtAwait(callLog[k].pc)

ConcCreateInputs == [booking_id : BookingIds, due_date : DueDates,
                     items : SeqsUpTo(ItemInputs, 1)]

\* the calls a caller may make: uuid() gives createInvoice an identifier no
\* invoice and no other call has
NewCalls ==
    LET taken == StoredIds \cup {callLog[k].id : k \in 1 .. Len(callLog)}
    IN {[op |-> "createInvoice", id |-> id, arg |-> input] :
            id \in InvoiceIds \ taken, input \in ConcCreateInputs}
       \cup {[op |-> "addInvoiceItem", id |-> id, arg |-> a] :
                id \in InvoiceIds, a \in ItemAmounts}
       \cup {[op |-> "recordPayment", id |-> id, arg |-> input] :
                id \in InvoiceIds, input \in PaymentInputs}

\* the call is made: `const store = load()`
ConcCallStep ==
    /\ Len(callLog) < MaxCalls
    /\ StackIsFree
    /\ \E c \in NewCalls :
          callLog' = Append(callLog, [op |-> c.op, id |-> c.id, arg |-> c.arg,
                                      pc |-> "loaded", store |-> load,
                                      invs |-> <<>>, err |-> "none"])
    /\ UNCHANGED <<storage, now, tz, ret, calls, bodyOverflow, issued, page>>

\* the rest of the body: modify, save(store), return (or throw)
ConcBodyStep ==
    /\ \E k \in 1 .. Len(callLog) :
          /\ callLog[k].pc = "loaded"
          /\ LET r == Body(callLog[k], callLog[k].store)
             IN /\ IF r.err = "none" THEN save(r.store) ELSE UNCHANGED storage
                /\ callLog' = [callLog EXCEPT ![k] = [@ EXCEPT !.pc = "returned",
                                                               !.store = EmptyStore,
                                                               !.invs = r.invs,
                                                               !.err = r.err]]
    /\ UNCHANGED <<now, tz, ret, calls, bodyOverflow, issued, page>>

\* the promise of a call settles: the caller's continuation gets the result
ConcSettleStep ==
    /\ StackIsFree
    /\ \E k \in 1 .. Len(callLog) :
          /\ callLog[k].pc = "returned"
          /\ callLog' = [callLog EXCEPT ![k] = [@ EXCEPT !.pc = "settled"]]
    /\ UNCHANGED <<storage, now, tz, ret, calls, bodyOverflow, issued, page>>

NextConc ==
    \/ ConcCallStep
    \/ ConcBodyStep
    \/ ConcSettleStep

SpecConc == Init /\ [][NextConc]_vars

---------------------------------------------------------------------------
(* pages/Billing.tsx: the load effect of BillingPage.  Every change of the  *)
(* filters runs the cleanup of the previous effect (alive = false) and then *)
(* the effect again: setLoading(true), listInvoices(filters) is called (its *)
(* body runs at the call, on the store of that moment) and awaited.  A run  *)
(* of the effect is [filters, alive, pc, data]; pending runs may settle in  *)
(* any order.  Meanwhile the store changes through the repository.          *)

PageFilters == {[NoFilters EXCEPT !.status = st] : st \in {"All", "Paid"}}

PageCreateInputs == [booking_id : BookingIds, due_date : DueDates,
                     items : {<<i>> : i \in ItemInputs}]

PagePaymentInputs == [amount : ItemAmounts]

\* the effect runs for filters f: cleanup of the run before it, then the call
RunEffect(f) ==
    LET cleaned == [k \in 1 .. Len(page.effects) |->
                       [page.effects[k] EXCEPT !.alive = FALSE]]
        run == [filters |-> f, alive |-> TRUE, pc |-> "pending",
                data |-> listInvoicesResult(f)]
    IN page' = [page EXCEPT !.filters = f, !.loading = TRUE,
                            !.effects = Append(cleaned, run)]

\* first render: the effect runs for the initial filters
PageMount ==
    /\ page.effects = <<>>
    /\ RunEffect(page.filters)

\* setFilters(f => ({ ...f, ... })): a new filters object, so the effect runs again
PageSetFilters(f) ==
    /\ page.effects # <<>>
    /\ Len(page.effects) < MaxEffects
    /\ RunEffect(f)

\* the awaited call of run k resolves, and its result is written whether or not
\* the run is still alive
PageLoadSettles_ignoresAlive(k) ==
    /\ page.effects[k].pc = "pending"
    /\ page' = [page EXCEPT !.invoices = page.effects[k].data,
                            !.loading = FALSE,
                            !.effects[k].pc = "settled"]

\* the awaited call of run k resolves: if (alive) setInvoices(data); finally
\* if (alive) setLoading(false)
PageLoadSettles(k) ==
    /\ page.effects[k].pc = "pending"
    /\ page' = [page EXCEPT !.invoices = IF page.effects[k].alive
                                          THEN page.effects[k].data ELSE @,
                            !.loading = IF page.effects[k].alive THEN FALSE ELSE @,
                            !.effects[k].pc = "settled"]

PageMountStep ==
    /\ PageMount
    /\ UNCHANGED <<storage, now, tz, ret, calls, bodyOverflow, issued, callLog>>

PageSetFiltersStep ==
    /\ \E f \in PageFilters : PageSetFilters(f)
    /\ UNCHANGED <<storage, now, tz, ret, calls, bodyOverflow, issued, callLog>>

PageLoadSettlesStep ==
    /\ \E k \in 1 .. Len(page.effects) : PageLoadSettles(k)
    /\ UNCHANGED <<storage, now, tz, ret, calls, bodyOverflow, issued, callLog>>

PageCreateStep ==
    /\ \E id \in InvoiceIds \ StoredIds, input \in PageCreateInputs : createInvoice(id, input)
    /\ UNCHANGED nonRepoVars

PagePaymentStep ==
    /\ \E id \in StoredIds, input \in PagePaymentInputs :
          /\ Stored(id).payments = <<>>
          /\ recordPayment(id, input)
    /\ UNCHANGED nonRepoVars

NextPage ==
    \/ PageMountStep
    \/ PageSetFiltersStep
    \/ PageLoadSettlesStep
    \/ PageCreateStep
    \/ PagePaymentStep

SpecPage == Init /\ [][NextPage]_vars

---------------------------------------------------------------------------
(* The financial model called again and again on one invoice while the      *)
(* clock advances by half days: the caller keeps the last result of each    *)
(* function, and with it the instants of the last two calls in a row.       *)

\* the instant of this call, then that of the call before when it was a call of
\* the same function
CallInstants(op) == <<now>> \o (IF ret.op = op THEN <<ret.args[1]>> ELSE <<>>)

RepeatComputeTotalsStep ==
    /\ ret' = [ret EXCEPT !.op = "computeTotals", !.totals = computeTotals(TheInvoice),
                          !.args = CallInstants("computeTotals")]
    /\ UNCHANGED <<storage, now, tz>>
    /\ UNCHANGED nonRepoVars

RepeatDeriveStatusStep ==
    /\ ret' = [ret EXCEPT !.op = "deriveStatus", !.status = deriveStatus(TheInvoice),
                          !.args = CallInstants("deriveStatus")]
    /\ UNCHANGED <<storage, now, tz>>
    /\ UNCHANGED nonRepoVars

HalfDayStep ==
    /\ now < StartHour + (MaxTicks * TickHours)
    /\ now' = now + (TickHours \div 2)
    /\ UNCHANGED <<storage, tz, ret>>
    /\ UNCHANGED nonRepoVars

NextRepeat ==
    \/ RepeatComputeTotalsStep
    \/ RepeatDeriveStatusStep
    \/ HalfDayStep

SpecRepeat == InitFinancial /\ [][NextRepeat]_vars

---------------------------------------------------------------------------
(* utils/pdf.ts: exportElementToPDF.  A call suspends once, at the await of *)
(* html2canvas; pages holds the vertical offset of each addImage.           *)

OverflowValues == {"", "hidden"}

PageHeights == {2, 3}

ExportBegin(c) ==
    /\ calls[c].pc = "idle"
    /\ calls' = [calls EXCEPT ![c] = [@ EXCEPT !.pc = "capturing",
                                                !.originalOverflow = bodyOverflow]]
    /\ bodyOverflow' = "visible"

\* html2canvas resolves: the first page is placed
CaptureDone(c, imgHeight, pageHeight) ==
    /\ calls[c].pc = "capturing"
    /\ LET position == 0
       IN calls' = [calls EXCEPT ![c] = [@ EXCEPT !.pc = "paging",
                                                   !.imgHeight = imgHeight,
                                                   !.pageHeight = pageHeight,
                                                   !.pages = <<position>>,
                                                   !.heightLeft = imgHeight - pageHeight,
                                                   !.position = 0 - pageHeight]]
    /\ UNCHANGED bodyOverflow

\* the click handler of InvoiceDetail's PDF button calls exportElementToPDF and
\* drops the promise: no await, no catch, so a rejection reaches no handler and
\* nothing is shown ("errorShown" would be a handler telling the user)
InvoiceDetailOnRejected == "unhandled"

\* html2canvas rejects: the finally block runs and the promise of the call rejects
CaptureFail(c) ==
    /\ calls[c].pc = "capturing"
    /\ calls' = [calls EXCEPT ![c] = [@ EXCEPT !.pc = "failed",
                                                !.rejection = InvoiceDetailOnRejected]]
    /\ bodyOverflow' = calls[c].originalOverflow

\* one turn of while (heightLeft >= 0)
PageLoop_whileNotNegative(c) ==
    /\ calls[c].pc = "paging"
    /\ calls[c].heightLeft >= 0
    /\ LET position == calls[c].position + calls[c].pageHeight
       IN calls' = [calls EXCEPT ![c] = [@ EXCEPT !.position = position,
                                                   !.pages = Append(@, 0 - position),
                                                   !.heightLeft = @ - calls[c].pageHeight]]
    /\ UNCHANGED bodyOverflow

\* one turn of while (heightLeft > 0)
PageLoop(c) ==
    /\ calls[c].pc = "paging"
    /\ calls[c].heightLeft > 0
    /\ LET position == calls[c].position + calls[c].pageHeight
       IN calls' = [calls EXCEPT ![c] = [@ EXCEPT !.position = position,
                                                   !.pages = Append(@, 0 - position),
                                                   !.heightLeft = @ - calls[c].pageHeight]]
    /\ UNCHANGED bodyOverflow

\* the loop is left: pdf.save(fileName), then the finally block
ExportFinish(c) ==
    /\ calls[c].pc = "paging"
    /\ ~(calls[c].heightLeft > 0)
    /\ calls' = [calls EXCEPT ![c] = [@ EXCEPT !.pc = "done", !.saved = TRUE]]
    /\ bodyOverflow' = calls[c].originalOverflow

RECURSIVE handleExportPdfLoop(_, _, _, _)
\* pages/Billing.tsx, handleExportPdf: while (heightLeft > 0) { position =
\* heightLeft - imgHeight; addPage; addImage at position; heightLeft -= pageHeight }
handleExportPdfLoop(pages, heightLeft, imgHeight, pageHeight) ==
    IF heightLeft > 0
    THEN LET position == heightLeft - imgHeight
         IN handleExportPdfLoop(Append(pages, position), heightLeft - pageHeight,
                                imgHeight, pageHeight)
    ELSE pages

\* the vertical offsets of the addImage calls of handleExportPdf, page by page
handleExportPdf(imgHeight, pageHeight) ==
    LET position == 0
    IN handleExportPdfLoop(<<position>>, imgHeight - pageHeight, imgHeight, pageHeight)

InitPdf ==
    /\ storage = [kind |-> "missing", invoices |-> <<>>]
    /\ now = StartHour
    /\ tz = 0
    /\ ret = NoRet
    /\ calls = [c \in ExportCalls |-> IdleCall]
    /\ bodyOverflow \in OverflowValues
    /\ issued = {}
    /\ callLog = <<>>
    /\ page = IdlePage

ExportBeginStep == (\E c \in ExportCalls : ExportBegin(c)) /\ UNCHANGED nonPdfVars

CaptureDoneStep ==
    /\ \E c \in ExportCalls, h \in 0 .. MaxImgHeight, p \in PageHeights : CaptureDone(c, h, p)
    /\ UNCHANGED nonPdfVars

CaptureFailStep == (\E c \in ExportCalls : CaptureFail(c)) /\ UNCHANGED nonPdfVars

PageLoopStep == (\E c \in ExportCalls : PageLoop(c)) /\ UNCHANGED nonPdfVars

ExportFinishStep == (\E c \in ExportCalls : ExportFinish(c)) /\ UNCHANGED nonPdfVars

NextPdf ==
    \/ ExportBeginStep
    \/ CaptureDoneStep
    \/ CaptureFailStep
    \/ PageLoopStep
    \/ ExportFinishStep

SpecPdf == InitPdf /\ [][NextPdf]_vars

\* Once html2canvas has resolved, the rest of exportElementToPDF is synchronous
\* code: the loop and what follows it run without waiting for anything, so a turn
\* that can be taken is taken.
SpecPdfFair ==
    /\ SpecPdf
    /\ \A c \in ExportCalls :
          /\ WF_vars(PageLoop(c) /\ UNCHANGED nonPdfVars)
          /\ WF_vars(ExportFinish(c) /\ UNCHANGED nonPdfVars)

---------------------------------------------------------------------------
(* Properties of the repository (specification Spec) *)

StoredInvoices == {load.invoices[k] : k \in 1 .. Len(load.invoices)}

ReturnedInvoices == {ret.invs[k] : k \in 1 .. Len(ret.invs)}

RECURSIVE PlainSum(_)
PlainSum(xs) == IF xs = <<>> THEN 0 ELSE xs[1].amount + PlainSum(Tail(xs))

\* C1: listInvoices({status: S}) returns exactly the stored invoices whose status
\* derived at call time is S, whatever their stored status field holds, and every
\* invoice of the result carries status S.
C1_StatusFilterIsDerived ==
    (ret.op = "listInvoices" /\ ret.filters.status # "All") =>
        LET DerivedIsS(i) == deriveStatus(i) = ret.filters.status
            expected == SelectSeq(load.invoices, DerivedIsS)
        IN /\ Len(ret.invs) = Len(expected)
           /\ \A k \in 1 .. Len(expected) : ret.invs[k].id = expected[k].id
           /\ \A k \in 1 .. Len(ret.invs) : ret.invs[k].status = ret.filters.status

\* C2: an invoice whose total is 0 never has status Paid, neither as persisted nor as
\* returned by createInvoice, addInvoiceItem, recordPayment, getInvoice or listInvoices.
C2_ZeroValueNeverPaid ==
    \A i \in StoredInvoices \cup ReturnedInvoices :
        computeTotals(i).total = 0 => i.status # "Paid"

\* C6: for every invoice the repository holds or hands back, overpaid ones included,
\* the balance is max(0, total - paid): never negative, total - paid while that is
\* positive and 0 from then on.
C6_BalanceClamped ==
    \A i \in StoredInvoices \cup ReturnedInvoices :
        LET t == computeTotals(i)
        IN /\ t.balance >= 0
           /\ t.paid < t.total => t.balance + t.paid = t.total
           /\ t.paid >= t.total => t.balance = 0

C6_Witness ==
    /\ ret.op = "recordPayment"
    /\ \E i \in ReturnedInvoices :
          /\ computeTotals(i).total > 0
          /\ computeTotals(i).paid > computeTotals(i).total
          /\ computeTotals(i).balance = 0

\* C7: every invoice listInvoices or getInvoice returns has the status deriveStatus
\* gives for the stored record and the total computeTotals gives for it, whatever
\* status the record stores; the other fields are the stored ones.
C7_ReadsAreRefreshed ==
    ret.op \in {"listInvoices", "getInvoice"} =>
        \A r \in ReturnedInvoices :
            /\ r.id \in StoredIds
            /\ r.status = deriveStatus(Stored(r.id))
            /\ r.total_amount = computeTotals(Stored(r.id)).total
            /\ [r EXCEPT !.status = "x", !.total_amount = 0]
                 = [Stored(r.id) EXCEPT !.status = "x", !.total_amount = 0]

C7_Witness ==
    /\ ret.op \in {"listInvoices", "getInvoice"}
    /\ \E r \in ReturnedInvoices : Stored(r.id).status = "Unpaid" /\ r.status = "Overdue"

\* C8: every persisted invoice has total_amount equal to the sum of the amounts of
\* its items, after payments too.
C8_TotalIsItemSum ==
    \A i \in StoredInvoices : i.total_amount = PlainSum(i.items)

C8_Witness ==
    /\ ret.op = "recordPayment"
    /\ \E i \in ReturnedInvoices :
          Len(i.items) = 2 /\ Len(i.payments) = 2 /\ i.total_amount = 4

\* C17: getInvoice(id) returns null, without failing, when no stored invoice has
\* that id; after getInvoice or listInvoices the persisted store is what it was
\* before the call: the refreshed status and total are on the returned copy only.
C17_ReadsChangeNothing ==
    [][ret'.op \in {"getInvoice", "listInvoices"} =>
          /\ storage' = storage
          /\ ret'.err = "none"
          /\ (ret'.op = "getInvoice" /\ ret'.id \notin StoredIds) => ret'.invs = <<>>]_vars

C17_Witness ==
    /\ ret.op = "getInvoice"
    /\ ret.err = "none"
    /\ \E r \in ReturnedInvoices :
          /\ r.status = "Overdue"
          /\ Stored(r.id).status = "Unpaid"
          /\ Stored(r.id).payments # <<>>

\* C18: whatever the storage key holds that is not the JSON of a store (nothing,
\* text that does not parse, JSON null, a number, {}), every operation takes it
\* for an empty store and none raises: listInvoices returns [], getInvoice returns
\* null, deleteInvoice returns normally and createInvoice creates the first invoice.
C18_CorruptIsEmptyStore ==
    [][storage.kind # "json" =>
          /\ ret'.err = "none"
          /\ ret'.op \in {"listInvoices", "getInvoice"} => ret'.invs = <<>>
          /\ ret'.op = "createInvoice" =>
                storage' = [kind |-> "json", invoices |-> <<ret'.invs[1]>>]]_vars

---------------------------------------------------------------------------
(* Properties of the filters (specification SpecFilter) *)

\* two characters that are the same letter, case apart
SameLetter(c, d) == ToLowerChar(c) = ToLowerChar(d)

\* q occurs in text, case apart
OccursIn(q, text) ==
    \E k \in 0 .. (Len(text) - Len(q)) :
        \A j \in 1 .. Len(q) : SameLetter(text[k + j], q[j])

\* C19: listInvoices keeps an invoice iff (the query is absent or empty, or occurs,
\* case apart, in invoice_number or in booking_id) and (dueFrom is absent or
\* due_date >= dueFrom) and (dueTo is absent or due_date <= dueTo); the result is in
\* store order and with no filter at all it is every stored invoice.
C19_FiltersAreConjunctive ==
    (ret.op = "listInvoices" /\ ret.filters.status = "All") =>
        LET f == ret.filters
            Keep(i) ==
                /\ \/ f.query = <<>>
                   \/ OccursIn(f.query, InvoiceNumberText(i.invoice_number))
                   \/ OccursIn(f.query, BookingText(i.booking_id))
                /\ ~f.hasFrom \/ i.due_date >= f.dueFrom
                /\ ~f.hasTo \/ i.due_date <= f.dueTo
            expected == SelectSeq(load.invoices, Keep)
        IN /\ Len(ret.invs) = Len(expected)
           /\ \A k \in 1 .. Len(expected) : ret.invs[k].id = expected[k].id
           /\ f = NoFilters => Len(ret.invs) = Len(load.invoices)

C19_Witness ==
    /\ ret.op = "listInvoices"
    /\ ret.filters.query = <<"B", "K">>
    /\ ret.filters.hasFrom
    /\ ret.filters.hasTo
    /\ Len(load.invoices) = 2
    /\ load.invoices[1].due_date = 301
    /\ load.invoices[2].booking_id = "bk-2"
    /\ load.invoices[2].due_date = 300
    /\ Len(ret.invs) = 1
    /\ ret.invs[1].id = load.invoices[2].id

---------------------------------------------------------------------------
(* Properties of the mutating operations (specification SpecLedger) *)

\* C12: createInvoice appends exactly one invoice to the store and persists it: the
\* new invoice has total_amount equal to the sum of the input item amounts, status
\* Unpaid, no payments, one item per input item in input order, each item pointing
\* back to the new invoice; the returned invoice is the persisted one.
C12_CreateAppends ==
    [][ret'.op = "createInvoice" =>
          LET input == ret'.args[1]
              new == ret'.invs[1]
          IN /\ storage'.kind = "json"
             /\ storage'.invoices = Append(load.invoices, new)
             /\ new.id = ret'.id
             /\ new.total_amount = PlainSum(input.items)
             /\ new.status = "Unpaid"
             /\ new.payments = <<>>
             /\ Len(new.items) = Len(input.items)
             /\ \A k \in 1 .. Len(input.items) :
                   /\ new.items[k].amount = input.items[k].amount
                   /\ new.items[k].invoice_id = new.id]_vars

C12_Witness ==
    /\ ret.op = "createInvoice"
    /\ Len(load.invoices) = 2
    /\ load.invoices[2] = ret.invs[1]
    /\ ret.args[1].items = <<[amount |-> 1], [amount |-> 2]>>
    /\ ret.invs[1].total_amount = 3

\* C13: addInvoiceItem on a stored invoice appends exactly one item at the end of
\* its items, sets total_amount to the sum of all item amounts, sets status to
\* deriveStatus of the updated invoice (a Paid invoice whose new total exceeds what
\* was paid becomes Unpaid or Overdue), persists the store and returns the invoice.
C13_AddItemRecomputes ==
    [][(ret'.op = "addInvoiceItem" /\ ret'.id \in StoredIds) =>
          LET k == FindIndex(load.invoices, ret'.id)
              old == load.invoices[k]
              item == [invoice_id |-> ret'.id, amount |-> ret'.args[1]]
              new == ret'.invs[1]
          IN /\ ret'.err = "none"
             /\ new.items = Append(old.items, item)
             /\ new.total_amount = PlainSum(new.items)
             /\ new.status = deriveStatus(new)
             /\ (old.status = "Paid" /\ PlainSum(new.items) > PlainSum(new.payments))
                   => new.status \in {"Unpaid", "Overdue"}
             /\ new = [old EXCEPT !.items = new.items, !.total_amount = new.total_amount,
                                  !.status = new.status]
             /\ storage' = [kind |-> "json",
                            invoices |-> [load.invoices EXCEPT ![k] = new]]]_vars

C13_Witness ==
    /\ ret.op = "addInvoiceItem"
    /\ ret.err = "none"
    /\ \E i \in ReturnedInvoices :
          /\ i.items = <<[invoice_id |-> i.id, amount |-> 1], [invoice_id |-> i.id, amount |-> 2]>>
          /\ i.payments = <<[invoice_id |-> i.id, amount |-> 1]>>
          /\ i.total_amount = 3
          /\ i.status = "Overdue"
          /\ Stored(i.id) = i

IsPrefix(a, b) == Len(a) <= Len(b) /\ SubSeq(b, 1, Len(a)) = a

\* C26: addInvoiceItem and recordPayment on invoice X change only X's items,
\* payments, total_amount and status: its id, booking_id, invoice_number and
\* due_date stay, the items and payments it had stay, unchanged and in order, at the
\* front of the lists, and every other invoice is unchanged and in its place; no
\* step other than the deletion of the whole invoice removes or alters a payment.
C26_MutationFrame ==
    [][\A k \in 1 .. Len(storage.invoices) :
          LET old == storage.invoices[k]
              mutated == ret'.op \in {"addInvoiceItem", "recordPayment"} /\ ret'.id = old.id
              deleted == ret'.op = "deleteInvoice" /\ ret'.id = old.id
          IN \/ deleted
             \/ /\ ret'.op \in {"addInvoiceItem", "recordPayment"} =>
                       /\ Len(storage'.invoices) = Len(storage.invoices)
                       /\ storage'.invoices[k].id = old.id
                /\ \E j \in 1 .. Len(storage'.invoices) :
                      LET new == storage'.invoices[j]
                      IN /\ new.id = old.id
                         /\ new.booking_id = old.booking_id
                         /\ new.invoice_number = old.invoice_number
                         /\ new.due_date = old.due_date
                         /\ IsPrefix(old.items, new.items)
                         /\ IsPrefix(old.payments, new.payments)
                         /\ ~mutated => new = old
                         /\ ret'.op = "addInvoiceItem" => new.payments = old.payments
                         /\ ret'.op = "recordPayment" => new.items = old.items]_vars

\* a second payment has been recorded on an invoice that has items, next to another
\* invoice that has an item
C26_Witness ==
    /\ ret.op = "recordPayment"
    /\ ret.err = "none"
    /\ Len(load.invoices) = 2
    /\ Stored(ret.id).payments = <<[invoice_id |-> ret.id, amount |-> 1],
                                   [invoice_id |-> ret.id, amount |-> 2]>>
    /\ Stored(ret.id).items # <<>>
    /\ \E i \in StoredInvoices : i.id # ret.id /\ i.items # <<>>

\* C14: recordPayment on a stored invoice appends the payment and sets status to
\* Paid whenever the new paid sum is >= total, whatever the due date and however
\* large the overpayment; when paid < total the status is deriveStatus of the
\* updated invoice.
C14_PaymentSetsStatus ==
    [][(ret'.op = "recordPayment" /\ ret'.id \in StoredIds) =>
          LET k == FindIndex(load.invoices, ret'.id)
              old == load.invoices[k]
              payment == [invoice_id |-> ret'.id, amount |-> ret'.args[1].amount]
              new == ret'.invs[1]
              paid == PlainSum(new.payments)
              total == IF old.total_amount > 0 THEN old.total_amount ELSE PlainSum(old.items)
          IN /\ ret'.err = "none"
             /\ new.payments = Append(old.payments, payment)
             /\ paid >= total => new.status = "Paid"
             /\ paid < total => new.status = deriveStatus(new)
             /\ new.items = old.items
             /\ storage' = [kind |-> "json",
                            invoices |-> [load.invoices EXCEPT ![k] = new]]]_vars

C14_Witness ==
    /\ ret.op = "recordPayment"
    /\ ret.err = "none"
    /\ \E i \in ReturnedInvoices :
          /\ ParseDate(i.due_date) < LocalMidnight(now)
          /\ i.total_amount = 2
          /\ i.payments = <<[invoice_id |-> i.id, amount |-> 1], [invoice_id |-> i.id, amount |-> 2]>>
          /\ i.status = "Paid"
          /\ Stored(i.id) = i

\* C15: addInvoiceItem and recordPayment called with an id that is not in the store
\* fail with 'Invoice not found' and leave the persisted value as it was: nothing
\* is added to any invoice and nothing is saved.
C15_NotFoundChangesNothing ==
    [][(ret'.op \in {"addInvoiceItem", "recordPayment"} /\ ret'.id \notin StoredIds) =>
          /\ ret'.err = "Invoice not found"
          /\ ret'.invs = <<>>
          /\ storage' = storage]_vars

C15_Witness ==
    /\ ret.op = "recordPayment"
    /\ ret.err = "Invoice not found"
    /\ ret.id \notin StoredIds
    /\ \E i \in StoredInvoices : i.items # <<>> /\ i.payments # <<>>

---------------------------------------------------------------------------
(* Properties of the allocator (specification SpecAlloc) *)

SuffixValue(i) == ParseInt(i.invoice_number.suffix)

\* C9: no two invoices present in the store share an invoice_number, whatever
\* creations, deletions and turns of the year came before.
C9_NumbersUnique ==
    \A j, k \in 1 .. Len(load.invoices) :
        j # k => load.invoices[j].invoice_number # load.invoices[k].invoice_number

C9_Witness ==
    /\ ret.op = "createInvoice"
    /\ Len(load.invoices) = 3
    /\ \E i, j \in StoredInvoices :
          /\ i.invoice_number.year # j.invoice_number.year
          /\ SuffixValue(i) = SuffixValue(j)
    /\ \E i \in StoredInvoices : SuffixValue(i) > Len(load.invoices)

\* C10: createInvoice gives the new invoice the current year and the sequence
\* max+1 over the suffixes of the other stored numbers of that year, gaps ignored,
\* and 1 when there is none; numbers of other years play no part.
C10_MaxPlusOne ==
    ret.op = "createInvoice" =>
        LET new == Stored(ret.id)
            year == FullYear(now)
            sameYear == {SuffixValue(i) : i \in {o \in StoredInvoices :
                            o.id # ret.id /\ o.invoice_number.year = year}}
        IN /\ new.invoice_number.year = year
           /\ sameYear = {} => SuffixValue(new) = 1
           /\ sameYear # {} => /\ \A n \in sameYear : SuffixValue(new) > n
                               /\ (SuffixValue(new) - 1) \in sameYear

C10_Witness ==
    /\ ret.op = "createInvoice"
    /\ SuffixValue(Stored(ret.id)) = 4
    /\ {SuffixValue(i) : i \in {o \in StoredInvoices : o.id # ret.id}} = {1, 3}
    /\ \A i \in StoredInvoices : i.invoice_number.year = FullYear(now)

\* C24: every invoice_number createInvoice allocates is INV-<4-digit year>-<sequence>
\* with a sequence of exactly 4 zero-padded digits, whatever the largest sequence
\* stored for the year.
C24_FourDigitSequence ==
    (ret.op = "createInvoice" /\ ret.err = "none") =>
        LET n == ret.invs[1].invoice_number
        IN /\ Len(Digits(n.year)) = 4
           /\ Len(n.suffix) = 4
           /\ \A k \in 1 .. Len(n.suffix) : n.suffix[k] \in 0 .. 9

\* C11: within one calendar year every sequence number createInvoice allocates is
\* strictly greater than every sequence number allocated earlier in that year, so
\* a number once given out, even to an invoice deleted since, is never given again.
C11_AllocationMonotonic ==
    [][ret'.op = "createInvoice" =>
          LET n == ret'.invs[1].invoice_number
          IN \A m \in issued : m.year = n.year => ParseInt(m.suffix) < ParseInt(n.suffix)]_vars

\* C16: deleteInvoice(id) removes the invoice with that id, items and payments with
\* it, and leaves every other invoice as it was and in the same order; for an id
\* that is not in the store (a second call for the same id included) it returns
\* without error and the stored invoices stay as they are.
C16_DeleteIsIdempotent ==
    [][ret'.op = "deleteInvoice" =>
          LET old == load.invoices
              k == FindIndex(old, ret'.id)
          IN /\ ret'.err = "none"
             /\ k = 0 => storage'.invoices = old
             /\ k # 0 => storage'.invoices =
                            SubSeq(old, 1, k - 1) \o SubSeq(old, k + 1, Len(old))
             /\ \A j \in 1 .. Len(storage'.invoices) : storage'.invoices[j].id # ret'.id]_vars

C16_Witness ==
    /\ ret.op = "deleteInvoice"
    /\ ret.err = "none"
    /\ ret.id \notin StoredIds
    /\ Len(load.invoices) = 2
    /\ SuffixValue(load.invoices[1]) = 1
    /\ SuffixValue(load.invoices[2]) = 3
    /\ load.invoices[1].invoice_number.year = load.invoices[2].invoice_number.year

---------------------------------------------------------------------------
(* Properties of the financial model (specification SpecFinancial) *)

\* C4: deriveStatus is Paid iff paid >= total and total > 0; otherwise Overdue iff
\* the due date is strictly before the current calendar day; otherwise Unpaid.
C4_StatusRule ==
    ret.op = "deriveStatus" =>
        LET t == computeTotals(TheInvoice)
        IN ret.status =
              IF t.paid >= t.total /\ t.total > 0 THEN "Paid"
              ELSE IF TheInvoice.due_date < LocalDay(now) THEN "Overdue"
              ELSE "Unpaid"

\* C5: computeTotals gives total = total_amount when that is a finite number
\* above 0 and the sum of the item amounts in every other case (zero, negative,
\* not finite); paid is the sum of the payment amounts.
C5_TotalPrecedence ==
    ret.op = "computeTotals" =>
        LET cached == TheInvoice.total_amount
        IN /\ (cached # NotANumber /\ cached >= 1) => ret.totals.total = cached
           /\ (cached = NotANumber \/ cached <= 0) =>
                 ret.totals.total = PlainSum(TheInvoice.items)
           /\ ret.totals.paid = PlainSum(TheInvoice.payments)

C5_Witness ==
    /\ ret.op = "computeTotals"
    /\ TheInvoice.total_amount = NotANumber
    /\ Len(TheInvoice.items) = 2
    /\ Len(TheInvoice.payments) = 2
    /\ ret.totals.total = 4

---------------------------------------------------------------------------
(* Properties of concurrently started calls (specification SpecConc) *)

RECURSIVE RunInOrder(_, _)
\* the first n calls of the log run one after another, in call order, from an
\* empty store: the store they leave and the result of the last of them
RunInOrder(log, n) ==
    IF n = 0 THEN [store |-> EmptyStore, invs |-> <<>>, err |-> "none"]
    ELSE Body(log[n], RunInOrder(log, n - 1).store)

\* C22: every operation does its load-modify-save without suspending, so calls
\* started without awaiting one another behave as if run one after another in call
\* order: no update is lost (the store is the one the calls leave when run in
\* order, each call returns what it returns then) and two createInvoice calls
\* never get the same invoice_number.
C22_CallsRunInOrder ==
    /\ \A k \in 1 .. Len(callLog) :
          callLog[k].pc # "loaded" =>
              /\ callLog[k].invs = RunInOrder(callLog, k).invs
              /\ callLog[k].err = RunInOrder(callLog, k).err
    /\ (\A k \in 1 .. Len(callLog) : callLog[k].pc # "loaded") =>
          load.invoices = RunInOrder(callLog, Len(callLog)).store.invoices
    /\ \A j, k \in 1 .. Len(callLog) :
          (/\ j # k
           /\ callLog[j].op = "createInvoice" /\ callLog[j].invs # <<>>
           /\ callLog[k].op = "createInvoice" /\ callLog[k].invs # <<>>)
             => callLog[j].invs[1].invoice_number # callLog[k].invs[1].invoice_number

C22_Witness ==
    /\ Len(callLog) = 3
    /\ \A k \in 1 .. 3 : callLog[k].pc = "returned"
    /\ callLog[1].op = "createInvoice"
    /\ callLog[2].op = "createInvoice"
    /\ callLog[3].op = "recordPayment"
    /\ callLog[3].id = callLog[1].id
    /\ Len(load.invoices) = 2
    /\ SuffixValue(load.invoices[1]) = 1
    /\ SuffixValue(load.invoices[2]) = 2
    /\ Len(load.invoices[1].payments) = 1

---------------------------------------------------------------------------
(* Status transitions of stored invoices (specification SpecStatus) *)

\* the derived status of the stored invoice id, at the current instant
DerivedStatusOf(id) == deriveStatus(Stored(id))

\* C30: for a stored invoice with total > 0 (payments are never negative): once its
\* derived status is Paid it stays Paid under further recordPayment calls and under
\* any advance of the date, only addInvoiceItem on it moves it out of Paid; an
\* Overdue invoice never goes back to Unpaid through the passage of time or through
\* a payment that leaves paid < total.
C30_StatusTransitions ==
    [][\A id \in StoredIds :
          (computeTotals(Stored(id)).total > 0 /\ id \in StoredIds') =>
              \A new \in {Stored(id)}' :
                  /\ (DerivedStatusOf(id) = "Paid" /\ deriveStatus(new)' # "Paid")
                        => (ret'.op = "addInvoiceItem" /\ ret'.id = id)
                  /\ (DerivedStatusOf(id) = "Overdue" /\ ret'.op # "addInvoiceItem")
                        => deriveStatus(new)' # "Unpaid"]_vars

\* a payment has been recorded, a day later, on an invoice that was already paid
\* in full
C30_Witness ==
    /\ ret.op = "recordPayment"
    /\ ret.err = "none"
    /\ now > StartHour
    /\ DerivedStatusOf(ret.id) = "Paid"
    /\ computeTotals(Stored(ret.id)).paid > computeTotals(Stored(ret.id)).total
    /\ computeTotals(Stored(ret.id)).total > 0

---------------------------------------------------------------------------
(* Properties of the billing page (specification SpecPage) *)

C25_CalendarDaysOnly ==
    (ret.op = "deriveStatus" /\ computeTotals(TheInvoice).paid < computeTotals(TheInvoice).total) =>
        LET today == (ret.args[1] + tz) \div 24
        IN /\ TheInvoice.due_date = today => ret.status = "Unpaid"
           /\ ret.status = "Overdue" => TheInvoice.due_date < today

\* C21: computeTotals and deriveStatus are pure functions of the invoice: two calls
\* on the same unchanged invoice return identical results whatever time passes
\* between them, and neither call modifies the invoice or the store.
C21_PureFunctions ==
    [][(ret'.op \in {"computeTotals", "deriveStatus"} /\ ret'.op = ret.op) =>
          /\ ret'.totals = ret.totals
          /\ ret'.status = ret.status
          /\ storage' = storage]_vars

\* C21, amended: computeTotals is a pure function of the invoice; deriveStatus is a
\* function of the invoice and of the current local calendar day: two calls on the
\* same unchanged invoice on the same local day return identical results (from one
\* day to a later one the result may go from Unpaid to Overdue); neither call
\* modifies the invoice or the store.
C21_PureUpToTheDay ==
    [][(ret'.op \in {"computeTotals", "deriveStatus"} /\ ret'.op = ret.op) =>
          /\ ret'.totals = ret.totals
          /\ LocalDay(ret'.args[1]) = LocalDay(ret.args[1]) => ret'.status = ret.status
          /\ storage' = storage]_vars

C21_Witness ==
    /\ ret.op = "deriveStatus"
    /\ Len(ret.args) = 2
    /\ ret.args[2] < ret.args[1]
    /\ LocalDay(ret.args[2]) = LocalDay(ret.args[1])
    /\ ret.status = "Unpaid"
    /\ TheInvoice.due_date = LocalDay(now)

---------------------------------------------------------------------------
(* Properties of the PDF export (specification SpecPdf) *)

\* C20: when the capture fails the export fails explicitly: the promise rejects, no
\* page is added and no file is saved, the body overflow style is put back to its
\* value from before the call, and the caller shows the failure to the user as an
\* export error instead of swallowing it.
C20_CaptureFailureSurfaced ==
    [][\A c \in ExportCalls :
          (calls[c].pc = "capturing" /\ calls'[c].pc = "failed") =>
              /\ calls'[c].pages = <<>>
              /\ ~calls'[c].saved
              /\ bodyOverflow' = calls[c].originalOverflow
              /\ calls'[c].rejection = "errorShown"]_vars

CeilDiv(a, b) == (a + (b - 1)) \div b

\* C23: the pagination loop of exportElementToPDF terminates for every image height
\* >= 0 and page height > 0 (a call that has begun paging finishes), and a finished
\* export has exactly max(1, ceil(imgHeight / pageHeight)) pages: one page when the
\* image fits (exact fit included), no trailing empty page on an exact multiple.
C23_LoopTerminatesWithCeilPages ==
    /\ [](\A c \in ExportCalls :
            calls[c].pc = "done" =>
                Len(calls[c].pages) = Max(1, CeilDiv(calls[c].imgHeight, calls[c].pageHeight)))
    /\ \A c \in ExportCalls : (calls[c].pc = "paging") ~> (calls[c].pc = "done")

\* one finished export of an image of exactly two pages, another of an exact fit
C23_Witness ==
    \E c, d \in ExportCalls :
        /\ calls[c].pc = "done"
        /\ calls[c].imgHeight = 2 * calls[c].pageHeight
        /\ Len(calls[c].pages) = 2
        /\ calls[d].pc = "done"
        /\ calls[d].imgHeight = calls[d].pageHeight
        /\ Len(calls[d].pages) = 1

\* C27: the two paginations are equivalent: for every image height and page height
\* exportElementToPDF and BillingPage.handleExportPdf add the same number of pages
\* and place the image at the same vertical offset on each page.
C27_SamePagination ==
    \A c \in ExportCalls :
        calls[c].pc = "done" =>
            LET billing == handleExportPdf(calls[c].imgHeight, calls[c].pageHeight)
            IN /\ Len(calls[c].pages) = Len(billing)
               /\ \A k \in 1 .. Len(billing) : calls[c].pages[k] = billing[k]

\* the body overflow style from before the first export call: the page never sets
\* "visible" itself, so it is the value saved by a call that did not find "visible"
OverflowBeforeFirstCall ==
    CHOOSE v \in OverflowValues :
        \E c \in ExportCalls : calls[c].pc # "idle" /\ calls[c].originalOverflow = v

\* C28: exportElementToPDF restores document.body.style.overflow: however many
\* export calls were started before earlier ones resolved and in whatever order
\* their captures completed or failed, once all of them have settled the body
\* overflow style is the one from before the first call.
C28_OverflowRestored ==
    (/\ \E c \in ExportCalls : calls[c].pc # "idle"
     /\ \A c \in ExportCalls : calls[c].pc \in {"idle", "done", "failed"})
        => bodyOverflow = OverflowBeforeFirstCall

\* C3: page k (from 0) of a finished export places the image at -(k * pageHeight),
\* so the pages show consecutive slices of the image, none twice.
C3_PagesAreConsecutiveSlices ==
    \A c \in ExportCalls :
        calls[c].pc = "done" =>
            \A k \in 1 .. Len(calls[c].pages) :
                calls[c].pages[k] = 0 - ((k - 1) * calls[c].pageHeight)

====
